---- MODULE Spec2Model ----
(***************************************************************************)
(* Model of src/stripe_webhook.py: the /stripe/webhook handler and         *)
(* add_balance_once, running as concurrent request handlers over one       *)
(* PostgreSQL store (tables users and stripe_purchases).                   *)
(*                                                                         *)
(* The store is modelled at READ COMMITTED: a transaction's writes become  *)
(* visible at its commit; an INSERT that meets an uncommitted row with the *)
(* same primary key, and an UPDATE that meets a row locked by another      *)
(* transaction, wait until that transaction ends.                          *)
(***************************************************************************)
EXTENDS Integers, Sequences, FiniteSets, TLC

\* ----------------------------------------------------------------- bounds
MaxDeliveries == 2      \* webhook deliveries in one behaviour
MaxFaults == 1          \* store errors and handler crashes in one behaviour

\* ------------------------------------------------------------- the inputs
None == "None"                                  \* Python's None / absent key
Procs == {"h1", "h2"}                           \* concurrent request handlers
Secrets == {"", "whsec_live"}                   \* STRIPE_WEBHOOK_SECRET
Signatures == {None, "whsec_live", "whsec_forged"}  \* key the header was signed with
EventTypes == {"checkout.session.completed", "payment_intent.succeeded"}
PaymentStatuses == {"paid", "unpaid"}
SessionIds == {"cs_1", "cs_2"}
UserIdTexts == {"1001", "1002", "abc"}          \* metadata.user_id as sent
PackTexts == {"pack_5", "pack_x"}                \* metadata.pack as sent: a known, an unknown
StripeKeys == {"", "sk_live"}                   \* STRIPE_SECRET_KEY
BaseUrls == {"", "https://musicai-webhook.onrender.com"}    \* PUBLIC_BASE_URL
BOT_USERNAME == "mu_sic_aibot"                  \* line 14
PriceIds == {"price_5", "price_gone"}           \* body.price_id: a price the provider has, one it has not
CheckoutUserIds == {1001}                       \* body.user_id
PageSessionIds == SessionIds \cup {"cs_stale"}  \* session_id of a /stripe/success request

\* line 20
PACK_TO_SONGS == [pack_1 |-> 1, pack_5 |-> 5, pack_30 |-> 30]

\* int(user_id), line 192: defined on decimal literals, ValueError otherwise
IntLiterals == {"1001", "1002"}
int(s) == CASE s = "1001" -> 1001 [] s = "1002" -> 1002

\* str(body.user_id), lines 112 and 115
str(n) == CASE n = 1001 -> "1001" [] n = 1002 -> "1002"

\* Python truthiness of an optional string (line 188)
Truthy(x) == x # None /\ x # ""

Requests ==
    [sig : Signatures, type : EventTypes, payment_status : PaymentStatuses,
     id : SessionIds \cup {None}, user_id : UserIdTexts \cup {None},
     pack : PackTexts \cup {None}]

NoRequest ==
    [sig |-> None, type |-> None, payment_status |-> None,
     id |-> None, user_id |-> None, pack |-> None]

\* CreateCheckoutBody, lines 84-87
CheckoutBodies == [user_id : CheckoutUserIds, pack : PackTexts, price_id : PriceIds]

VARIABLES
    STRIPE_WEBHOOK_SECRET,  \* line 12, read once at import
    users,                  \* committed rows of table users: {[user_id, balance]}
    stripe_purchases,       \* committed rows of table stripe_purchases, in commit order
    pc,                     \* per handler: where it stands in add_balance_once
    req,                    \* per handler: the request being served
    tx,                     \* per handler: uncommitted writes of its transaction
    result,                 \* per handler: value add_balance_once returned
    out,                    \* the response this step sent, NoResponse when it sent none
    answers,                \* per session id: the credited values answered, in order
    overlapped,             \* per session id: two deliveries of it were ever in flight together
    raced,                  \* per session id: a delivery began while another one of it held
                            \*   an open transaction and no row of it was committed
    meta,                   \* per session id: the (user_id, pack) pairs delivered for it
    aborts,                 \* session ids whose transaction ended uncommitted after its
                            \*   INSERT into stripe_purchases had succeeded
    deliveries,             \* requests received so far
    faults,                 \* store errors and crashes so far
    STRIPE_SECRET_KEY,      \* line 11, read once at import
    PUBLIC_BASE_URL,        \* line 15, read once at import
    page,                   \* the response this step sent to a create-checkout, success
                            \*   or cancel request, NoPage when it served none
    provider                \* the call of stripe.checkout.Session.create this step
                            \*   made, NoCall when it made none

vars == <<STRIPE_WEBHOOK_SECRET, users, stripe_purchases, pc, req, tx, result,
          out, answers, overlapped, raced, meta, aborts, deliveries, faults,
          STRIPE_SECRET_KEY, PUBLIC_BASE_URL, page, provider>>

store == <<users, stripe_purchases>>
history == <<answers, overlapped, raced, meta, aborts>>

\* ------------------------------------------------------------ the tables
HasUser(u) == \E r \in users : r.user_id = u

Balance(u) == IF HasUser(u) THEN (CHOOSE r \in users : r.user_id = u).balance ELSE 0

RowsOf(sid) == {i \in DOMAIN stripe_purchases : stripe_purchases[i].session_id = sid}

RECURSIVE SumSongs(_, _)
SumSongs(rows, u) ==
    IF rows = <<>> THEN 0
    ELSE (IF Head(rows).user_id = u THEN Head(rows).songs ELSE 0) + SumSongs(Tail(rows), u)

\* a transaction that has written nothing
NoTx == [user |-> FALSE, purchase |-> FALSE, updated |-> FALSE, balance |-> 0]

\* ----------------------------------------------------- HTTP responses
Response(r, status, body) == [req |-> r, status |-> status, body |-> body]

Detail(text) == [detail |-> text]

NoResponse == [req |-> NoRequest, status |-> 0, body |-> [none |-> TRUE]]

Page(route, r, status, body) == [route |-> route, req |-> r, status |-> status, body |-> body]

NoPage == [route |-> None, req |-> [none |-> TRUE], status |-> 0, body |-> [none |-> TRUE]]

NoCall == [none |-> TRUE]

\* a step of the webhook serves no other route and calls no provider
NoPageServed ==
    /\ page' = NoPage
    /\ provider' = NoCall
    /\ UNCHANGED <<STRIPE_SECRET_KEY, PUBLIC_BASE_URL>>

\* faulty variant: an empty secret passes for a configured one
SecretAlwaysSet(secret) == TRUE

\* line 164: not STRIPE_WEBHOOK_SECRET is the negation
SecretSet(secret) == secret # ""

\* faulty variant: the header is not verified
AcceptsAnySignature(sig, secret) == TRUE

\* stripe.Webhook.construct_event, line 172: the header verifies iff it
\* was produced with the configured secret
VerifySignature(sig, secret) == sig = secret

\* faulty variant: every event type is handled as a completed checkout
AnyTypeIsCheckoutCompleted(type) == TRUE

\* line 176
IsCheckoutCompleted(type) == type = "checkout.session.completed"

\* faulty variant: the payment status is not looked at
AnyStatusIsPaid(payment_status) == TRUE

\* line 180: session.get("payment_status") != "paid" is the negation
IsPaid(payment_status) == payment_status = "paid"

\* faulty variant: the not-paid answer carries no reason
NotPaidBodyWithoutReason == [ok |-> TRUE]

\* line 181
NotPaidBody == [ok |-> TRUE, ignored |-> "not_paid"]

\* line 198
PlainBody == [ok |-> TRUE]

\* faulty variant: metadata.user_id is not tested
WellFormedWithoutUser(r) == Truthy(r.id) /\ r.pack \in DOMAIN PACK_TO_SONGS

\* line 188: session_id and user_id and pack in PACK_TO_SONGS
WellFormed(r) == Truthy(r.id) /\ Truthy(r.user_id) /\ r.pack \in DOMAIN PACK_TO_SONGS

\* lines 164-198 up to the call of add_balance_once: the response the
\* handler gives without touching the store, or status 0 when it goes on
\* to call add_balance_once
Prelude(r, secret) ==
    IF ~SecretSet(secret) THEN Response(r, 500, Detail("STRIPE_WEBHOOK_SECRET not set"))
    ELSE IF r.sig = None THEN Response(r, 400, Detail("Missing Stripe-Signature header"))
    ELSE IF ~VerifySignature(r.sig, secret) THEN Response(r, 400, Detail("Invalid signature"))
    ELSE IF ~IsCheckoutCompleted(r.type) THEN Response(r, 200, PlainBody)
    ELSE IF ~IsPaid(r.payment_status) THEN Response(r, 200, NotPaidBody)
    ELSE IF ~WellFormed(r) THEN Response(r, 200, PlainBody)
    ELSE IF r.user_id \notin IntLiterals
        THEN Response(r, 500, Detail("Internal Server Error"))
    ELSE Response(r, 0, [call |-> "add_balance_once"])

\* What the handler has looked at when it answers without calling
\* add_balance_once: the fields its conditions never tested (line 188
\* short-circuits from left to right) are left out of the record of the
\* answered request.
Examined(r, secret) ==
    IF ~SecretSet(secret) THEN NoRequest
    ELSE IF r.sig = None \/ ~VerifySignature(r.sig, secret)
        THEN [NoRequest EXCEPT !.sig = r.sig]
    ELSE IF ~IsCheckoutCompleted(r.type)
        THEN [NoRequest EXCEPT !.sig = r.sig, !.type = r.type]
    ELSE IF ~IsPaid(r.payment_status)
        THEN [NoRequest EXCEPT !.sig = r.sig, !.type = r.type,
                               !.payment_status = r.payment_status]
    ELSE IF ~Truthy(r.id) THEN [r EXCEPT !.user_id = None, !.pack = None]
    ELSE IF ~Truthy(r.user_id) THEN [r EXCEPT !.pack = None]
    ELSE r

\* init_db (lines 30-54) creates the tables only if they do not exist:
\* the handlers start on empty tables, or on the tables an earlier run
\* left, here with one credited purchase of user 1001.
EmptyStore == [users |-> {}, stripe_purchases |-> <<>>]

EarlierStore ==
    [users |-> {[user_id |-> 1001, balance |-> 1]},
     stripe_purchases |-> <<[session_id |-> "cs_0", user_id |-> 1001,
                             pack |-> "pack_1", songs |-> 1]>>]

\* The state after import and startup.  The webhook reads neither
\* STRIPE_SECRET_KEY nor PUBLIC_BASE_URL.
InitWith(keys, urls) ==
    /\ STRIPE_SECRET_KEY \in keys
    /\ PUBLIC_BASE_URL \in urls
    /\ page = NoPage
    /\ provider = NoCall
    /\ STRIPE_WEBHOOK_SECRET \in Secrets
    /\ \E db \in {EmptyStore, EarlierStore} :
        /\ users = db.users
        /\ stripe_purchases = db.stripe_purchases
    /\ pc = [p \in Procs |-> "idle"]
    /\ req = [p \in Procs |-> NoRequest]
    /\ tx = [p \in Procs |-> NoTx]
    /\ result = [p \in Procs |-> FALSE]
    /\ out = NoResponse
    /\ answers = [s \in SessionIds |-> <<>>]
    /\ overlapped = [s \in SessionIds |-> FALSE]
    /\ raced = [s \in SessionIds |-> FALSE]
    /\ meta = [s \in SessionIds |-> {}]
    /\ aborts = {}
    /\ deliveries = 0
    /\ faults = 0

\* a deployment with the checkout route configured
Init == InitWith(StripeKeys \ {""}, BaseUrls \ {""})

\* every deployment
InitApp == InitWith(StripeKeys, BaseUrls)

Active(p) == pc[p] # "idle"

\* A delivery the handler answers without calling add_balance_once
\* (lines 164-188 and 198, and a ValueError of int() at line 192).
Answer ==
    /\ NoPageServed
    /\ \E p \in Procs : ~Active(p)
    /\ deliveries < MaxDeliveries
    /\ out' \in {[Prelude(r, STRIPE_WEBHOOK_SECRET)
                      EXCEPT !.req = Examined(r, STRIPE_WEBHOOK_SECRET)] :
                  r \in {x \in Requests : Prelude(x, STRIPE_WEBHOOK_SECRET).status # 0}}
    /\ deliveries' = deliveries + 1
    /\ UNCHANGED <<STRIPE_WEBHOOK_SECRET, store, pc, req, tx, result, history, faults>>

\* A delivery that passes lines 164-189 and calls add_balance_once
\* (line 190); db_conn() opens the connection (line 62).  The handlers are
\* interchangeable, so the delivery goes to the first idle one.
Begin(p) ==
    /\ NoPageServed
    /\ ~Active(p)
    /\ (p = "h2" => Active("h1"))
    /\ deliveries < MaxDeliveries
    /\ \E r \in Requests :
        /\ Prelude(r, STRIPE_WEBHOOK_SECRET).status = 0
        /\ req' = [req EXCEPT ![p] = r]
        /\ meta' = [meta EXCEPT ![r.id] = @ \cup {<<r.user_id, r.pack>>}]
        /\ overlapped' = [overlapped EXCEPT ![r.id] =
                            @ \/ \E q \in Procs \ {p} : Active(q) /\ req[q].id = r.id]
        /\ raced' = [raced EXCEPT ![r.id] =
                       @ \/ (RowsOf(r.id) = {} /\ \E q \in Procs \ {p} :
                                req[q].id = r.id
                                /\ pc[q] \in {"ins_user", "ins_purchase", "update", "commit"})]
    /\ pc' = [pc EXCEPT ![p] = "ins_user"]
    /\ deliveries' = deliveries + 1
    /\ out' = NoResponse
    /\ UNCHANGED <<STRIPE_WEBHOOK_SECRET, store, tx, result, answers, aborts, faults>>

\* the arguments of the call at lines 190-195
UserOf(p) == int(req[p].user_id)
SongsOf(p) == PACK_TO_SONGS[req[p].pack]
RowOf(p) ==
    [session_id |-> req[p].id, user_id |-> UserOf(p),
     pack |-> req[p].pack, songs |-> SongsOf(p)]

\* users.user_id is the primary key (line 35): an insert of a key another
\* open transaction has inserted waits for that transaction to end
UserInsertWaits(p) ==
    \E q \in Procs \ {p} : tx[q].user /\ UserOf(q) = UserOf(p)

\* line 63: INSERT INTO users ... ON CONFLICT DO NOTHING
InsertUser(p) ==
    /\ NoPageServed
    /\ pc[p] = "ins_user"
    /\ ~UserInsertWaits(p)
    /\ tx' = [tx EXCEPT ![p].user = ~HasUser(UserOf(p))]
    /\ pc' = [pc EXCEPT ![p] = "ins_purchase"]
    /\ out' = NoResponse
    /\ UNCHANGED <<STRIPE_WEBHOOK_SECRET, store, req, result, history, deliveries, faults>>

\* faulty variant: the table has no primary key on session_id
NeverUniqueViolation(sid) == FALSE

\* stripe_purchases.session_id is the primary key (line 46)
UniqueViolation(sid) == RowsOf(sid) # {}

\* faulty variant: a duplicate key is checked against committed rows only
PurchaseInsertNeverWaits(p) == FALSE

\* an insert of a session_id another open transaction has inserted waits
\* for that transaction to end
PurchaseInsertWaits(p) ==
    \E q \in Procs \ {p} : tx[q].purchase /\ req[q].id = req[p].id

\* lines 65-68: INSERT INTO stripe_purchases; a duplicate key raises
\* (line 69)
InsertPurchase(p) ==
    /\ NoPageServed
    /\ pc[p] = "ins_purchase"
    /\ IF UniqueViolation(req[p].id)
         THEN /\ pc' = [pc EXCEPT ![p] = "rollback"]
              /\ tx' = tx
         ELSE /\ ~PurchaseInsertWaits(p)
              /\ tx' = [tx EXCEPT ![p].purchase = TRUE]
              /\ pc' = [pc EXCEPT ![p] = "update"]
    /\ out' = NoResponse
    /\ UNCHANGED <<STRIPE_WEBHOOK_SECRET, store, req, result, history, deliveries, faults>>

\* faulty variant: the except branch returns True
CreditedAfterRollbackTrue == TRUE

\* line 71: return False
CreditedAfterRollback == FALSE

\* lines 69-71: except Exception: conn.rollback(); return False
Rollback(p) ==
    /\ NoPageServed
    /\ pc[p] = "rollback"
    /\ tx' = [tx EXCEPT ![p] = NoTx]
    /\ result' = [result EXCEPT ![p] = CreditedAfterRollback]
    /\ pc' = [pc EXCEPT ![p] = "ret"]
    /\ out' = NoResponse
    /\ UNCHANGED <<STRIPE_WEBHOOK_SECRET, store, req, history, deliveries, faults>>

\* faulty variant: the balance is read without the row lock (a SELECT followed
\* by a SET of the sum computed in the handler)
RowLockNeverWaits(p) == FALSE

\* the users row is locked by the transaction that updated it
RowLockWaits(p) ==
    \E q \in Procs \ {p} : tx[q].updated /\ UserOf(q) = UserOf(p)

\* faulty variant: the songs are taken from the balance
NewBalanceDebit(balance, songs) == balance - songs

\* balance = balance + %s
NewBalance(balance, songs) == balance + songs

\* line 73: UPDATE users SET balance = balance + songs WHERE user_id = ...
UpdateBalance(p) ==
    /\ NoPageServed
    /\ pc[p] = "update"
    /\ ~RowLockWaits(p)
    /\ tx' = [tx EXCEPT ![p].updated = TRUE,
                        ![p].balance = NewBalance(Balance(UserOf(p)), SongsOf(p))]
    /\ pc' = [pc EXCEPT ![p] = "commit"]
    /\ out' = NoResponse
    /\ UNCHANGED <<STRIPE_WEBHOOK_SECRET, store, req, result, history, deliveries, faults>>

\* faulty variant: the UPDATE runs outside the transaction that is committed
CommittedUsersWithoutIncrement(p) ==
    IF HasUser(UserOf(p)) THEN users
    ELSE users \cup {[user_id |-> UserOf(p), balance |-> 0]}

\* faulty variant: the transaction runs the UPDATE without the INSERT INTO users
CommittedUsersUpdateOnly(p) ==
    {IF r.user_id = UserOf(p) THEN [r EXCEPT !.balance = tx[p].balance] ELSE r : r \in users}

\* the tables after the transaction of p commits
CommittedUsers(p) ==
    {r \in users : r.user_id # UserOf(p)}
        \cup {[user_id |-> UserOf(p), balance |-> tx[p].balance]}

CommittedPurchases(p) == Append(stripe_purchases, RowOf(p))

\* lines 74-75: conn.commit(); return True
Commit(p) ==
    /\ NoPageServed
    /\ pc[p] = "commit"
    /\ users' = CommittedUsers(p)
    /\ stripe_purchases' = CommittedPurchases(p)
    /\ tx' = [tx EXCEPT ![p] = NoTx]
    /\ result' = [result EXCEPT ![p] = TRUE]
    /\ pc' = [pc EXCEPT ![p] = "ret"]
    /\ out' = NoResponse
    /\ UNCHANGED <<STRIPE_WEBHOOK_SECRET, req, history, deliveries, faults>>

\* line 196: return {"ok": True, "credited": credited}
Return(p) ==
    /\ NoPageServed
    /\ pc[p] = "ret"
    /\ out' = Response(req[p], 200, [ok |-> TRUE, credited |-> result[p]])
    /\ answers' = [answers EXCEPT ![req[p].id] = Append(@, result[p])]
    /\ pc' = [pc EXCEPT ![p] = "idle"]
    /\ req' = [req EXCEPT ![p] = NoRequest]
    /\ result' = [result EXCEPT ![p] = FALSE]
    /\ UNCHANGED <<STRIPE_WEBHOOK_SECRET, store, tx, overlapped, raced, meta, aborts,
                   deliveries, faults>>

\* the record of a transaction that ends without a commit
Aborted(p) == IF tx[p].purchase THEN aborts \cup {req[p].id} ELSE aborts

\* The store raises something other than a duplicate key (connection lost,
\* statement timeout, ...).  At lines 62-63 and 73 the exception leaves the
\* with-block, which rolls back, and the request ends with status 500; at
\* lines 65-68 it is caught by "except Exception" (line 69).
StoreError(p) ==
    /\ NoPageServed
    /\ faults < MaxFaults
    /\ faults' = faults + 1
    /\ \/ /\ pc[p] \in {"ins_user", "update"}
          /\ aborts' = Aborted(p)
          /\ tx' = [tx EXCEPT ![p] = NoTx]
          /\ out' = Response(req[p], 500, Detail("Internal Server Error"))
          /\ pc' = [pc EXCEPT ![p] = "idle"]
          /\ req' = [req EXCEPT ![p] = NoRequest]
       \/ /\ pc[p] = "ins_purchase"
          /\ pc' = [pc EXCEPT ![p] = "rollback"]
          /\ out' = NoResponse
          /\ UNCHANGED <<tx, req, aborts>>
    /\ UNCHANGED <<STRIPE_WEBHOOK_SECRET, store, result, answers, overlapped, raced, meta,
                   deliveries>>

\* The handler's process dies inside add_balance_once: the store aborts
\* its open transaction and no response is sent.
Crash(p) ==
    /\ NoPageServed
    /\ faults < MaxFaults
    /\ faults' = faults + 1
    /\ pc[p] \in {"ins_user", "ins_purchase", "rollback", "update", "commit", "ret"}
    /\ aborts' = Aborted(p)
    /\ tx' = [tx EXCEPT ![p] = NoTx]
    /\ pc' = [pc EXCEPT ![p] = "idle"]
    /\ req' = [req EXCEPT ![p] = NoRequest]
    /\ result' = [result EXCEPT ![p] = FALSE]
    /\ out' = NoResponse
    /\ UNCHANGED <<STRIPE_WEBHOOK_SECRET, store, answers, overlapped, raced, meta, deliveries>>

\* ------------------------------------------- the routes beside the webhook
\* faulty variant: the key is not tested
StripeKeyAlwaysSet(key) == TRUE

\* line 92: not STRIPE_SECRET_KEY is the negation
StripeKeySet(key) == key # ""

\* faulty variant: the pack is not tested before the provider is called
AnyPackKnown(pack) == TRUE

\* line 95: body.pack not in PACK_TO_SONGS is the negation
PackKnown(pack) == pack \in DOMAIN PACK_TO_SONGS

\* lines 102-103
SuccessUrl(base) == <<base, "/stripe/success?session_id={CHECKOUT_SESSION_ID}">>

CancelUrl(base) == <<base, "/stripe/cancel">>

\* the arguments of stripe.checkout.Session.create, lines 106-116
CheckoutCall(body, base) ==
    [mode |-> "payment",
     line_items |-> <<[price |-> body.price_id, quantity |-> 1]>>,
     success_url |-> SuccessUrl(base),
     cancel_url |-> CancelUrl(base),
     metadata |-> [user_id |-> str(body.user_id), pack |-> body.pack],
     client_reference_id |-> str(body.user_id)]

\* What stripe.checkout.Session.create does with a call: it returns a new
\* session with its id and url, or raises (here for a price id the provider
\* does not have).
ProviderOutcomes(call) ==
    IF call.line_items[1].price = "price_5"
        THEN {[raised |-> FALSE, id |-> sid, url |-> <<"https://checkout.stripe.com/c/pay/", sid>>] :
                sid \in SessionIds}
        ELSE {[raised |-> TRUE, error |-> "No such price"]}

\* create_checkout, lines 91-120: the responses it can give to a body,
\* each with the provider call it made
CheckoutResults(body, key, base) ==
    IF ~StripeKeySet(key)
        THEN {[page |-> Page("create-checkout", body, 500, Detail("STRIPE_SECRET_KEY not set")),
               call |-> NoCall]}
    ELSE IF ~PackKnown(body.pack)
        THEN {[page |-> Page("create-checkout", body, 400, Detail("Unknown pack")),
               call |-> NoCall]}
    ELSE IF base = ""
        THEN {[page |-> Page("create-checkout", body, 500, Detail("PUBLIC_BASE_URL not set")),
               call |-> NoCall]}
    ELSE {[page |-> IF o.raised
                      THEN Page("create-checkout", body, 400,
                                Detail(<<"Stripe error: ", o.error>>))
                      ELSE Page("create-checkout", body, 200,
                                [checkout_url |-> o.url, session_id |-> o.id]),
           call |-> CheckoutCall(body, base)] :
            o \in ProviderOutcomes(CheckoutCall(body, base))}

\* POST /stripe/create-checkout
CreateCheckout ==
    /\ deliveries < MaxDeliveries
    /\ deliveries' = deliveries + 1
    /\ \E body \in CheckoutBodies :
        \E res \in CheckoutResults(body, STRIPE_SECRET_KEY, PUBLIC_BASE_URL) :
            /\ page' = res.page
            /\ provider' = res.call
    /\ out' = NoResponse
    /\ UNCHANGED <<STRIPE_WEBHOOK_SECRET, store, pc, req, tx, result, history, faults,
                   STRIPE_SECRET_KEY, PUBLIC_BASE_URL>>

\* faulty variant: the redirect is taken for a payment and credits a song
UsersCreditedBySuccessPage(session_id) == {[r EXCEPT !.balance = @ + 1] : r \in users}

\* stripe_success, lines 125-143, executes no statement on the store
UsersAfterSuccessPage(session_id) == users

\* lines 126-143: the page with its two links
SuccessPage(session_id) ==
    [tme |-> <<"https://t.me/", BOT_USERNAME, "?start=paid_", session_id>>,
     tg |-> <<"tg://resolve?domain=", BOT_USERNAME, "&start=paid_", session_id>>]

\* GET /stripe/success?session_id=...
StripeSuccess ==
    /\ deliveries < MaxDeliveries
    /\ deliveries' = deliveries + 1
    /\ \E session_id \in PageSessionIds :
        /\ page' = Page("success", [session_id |-> session_id], 200, SuccessPage(session_id))
        /\ users' = UsersAfterSuccessPage(session_id)
    /\ provider' = NoCall
    /\ out' = NoResponse
    /\ UNCHANGED <<STRIPE_WEBHOOK_SECRET, stripe_purchases, pc, req, tx, result, history,
                   faults, STRIPE_SECRET_KEY, PUBLIC_BASE_URL>>

\* lines 148-158
CancelPage == [tme |-> <<"https://t.me/", BOT_USERNAME, "?start=cancel">>]

\* GET /stripe/cancel
StripeCancel ==
    /\ deliveries < MaxDeliveries
    /\ deliveries' = deliveries + 1
    /\ page' = Page("cancel", [none |-> TRUE], 200, CancelPage)
    /\ provider' = NoCall
    /\ out' = NoResponse
    /\ UNCHANGED <<STRIPE_WEBHOOK_SECRET, store, pc, req, tx, result, history, faults,
                   STRIPE_SECRET_KEY, PUBLIC_BASE_URL>>

\* the handlers while the store answers every statement
NextReliable ==
    \/ Answer
    \/ \E p \in Procs :
        \/ Begin(p)
        \/ InsertUser(p)
        \/ InsertPurchase(p)
        \/ Rollback(p)
        \/ UpdateBalance(p)
        \/ Commit(p)
        \/ Return(p)

Next ==
    \/ NextReliable
    \/ \E p \in Procs : StoreError(p) \/ Crash(p)

Spec == Init /\ [][Next]_vars

SpecReliable == Init /\ [][NextReliable]_vars

\* every route of the application, in every deployment
NextApp ==
    \/ NextReliable
    \/ CreateCheckout
    \/ StripeSuccess
    \/ StripeCancel

SpecApp == InitApp /\ [][NextApp]_vars

\* ------------------------------------------------------------------ claims
UserIds == {int(t) : t \in IntLiterals}

Credited(resp) == resp.status = 200 /\ "credited" \in DOMAIN resp.body

TheRow(sid) == stripe_purchases[CHOOSE i \in RowsOf(sid) : TRUE]

\* C1: once a delivery of a paid checkout.session.completed event for
\* session S, user U and known pack P has been answered, and S was never
\* delivered with other metadata, the committed store holds exactly one
\* stripe_purchases row for S, that row is (S, U, P, PACK_TO_SONGS[P]), and
\* the balance of U counts it once: it is the sum of the songs of U's rows,
\* so PACK_TO_SONGS[P] when S is the only session of U.  This holds however
\* many deliveries there were and however they interleaved, while the store
\* answers every statement.
C1_CreditedExactlyOnce ==
    \A s \in SessionIds :
        (answers[s] # <<>> /\ Cardinality(meta[s]) = 1) =>
            LET m == CHOOSE x \in meta[s] : TRUE
                u == int(m[1])
            IN  /\ Cardinality(RowsOf(s)) = 1
                /\ TheRow(s) = [session_id |-> s, user_id |-> u, pack |-> m[2],
                                songs |-> PACK_TO_SONGS[m[2]]]
                /\ Balance(u) = SumSongs(stripe_purchases, u)
                /\ (\A i \in DOMAIN stripe_purchases :
                        stripe_purchases[i].user_id = u => i \in RowsOf(s))
                   => Balance(u) = PACK_TO_SONGS[m[2]]

\* C1 witness: the same pack_5 event of a new user was delivered twice,
\* concurrently, both deliveries were answered, and the balance is 5, not 10.
C1_Witness ==
    \E s \in SessionIds :
        /\ Len(answers[s]) = 2
        /\ overlapped[s]
        /\ meta[s] = {<<"1002", "pack_5">>}
        /\ Cardinality(RowsOf(s)) = 1
        /\ Balance(1002) = 5

\* the number of deliveries of session s answered credited=true
RECURSIVE CountTrue(_)
CountTrue(seq) == IF seq = <<>> THEN 0 ELSE (IF Head(seq) THEN 1 ELSE 0) + CountTrue(Tail(seq))

InFlight(s) == \E p \in Procs : Active(p) /\ req[p].id = s

\* C2: when two handlers race in add_balance_once for the same new session
\* id, at most one of them is ever answered credited=true, and once both
\* have returned exactly one was answered credited=true and the other
\* credited=false; the store holds one row for the session and the balance of
\* its user counts it once.
C2_RaceHasOneWinner ==
    \A s \in SessionIds :
        raced[s] =>
            /\ CountTrue(answers[s]) <= 1
            /\ \A p, q \in Procs :
                    (p # q /\ pc[p] = "ret" /\ pc[q] = "ret"
                        /\ req[p].id = s /\ req[q].id = s /\ answers[s] = <<>>)
                    => result[p] # result[q]
            /\ (~InFlight(s)) =>
                    /\ Len(answers[s]) >= 2
                    /\ CountTrue(answers[s]) = 1
                    /\ Cardinality(RowsOf(s)) = 1
                    /\ Balance(TheRow(s).user_id)
                         = SumSongs(stripe_purchases, TheRow(s).user_id)

\* C2 witness: both racers have returned, one True and one False, and
\* the loser was answered first; one row, balance 5.
C2_Witness ==
    \E s \in SessionIds :
        /\ raced[s]
        /\ answers[s] = <<FALSE, TRUE>>
        /\ Cardinality(RowsOf(s)) = 1
        /\ Balance(TheRow(s).user_id) = 5

\* C3: in every committed state each user's balance is the sum of the
\* songs of the stripe_purchases rows of that user (store errors and
\* crashes included).
C3_BalanceIsSumOfPurchases ==
    /\ \A u \in UserIds : Balance(u) = SumSongs(stripe_purchases, u)
    /\ \A r \in users : r.user_id \in UserIds

\* C3 witness: two deliveries for two new sessions of a user who already
\* had a purchase ran concurrently (the second UPDATE waited for the row
\* lock) and both committed: three rows, balance 1 + 5 + 5.
C3_Witness ==
    /\ Len(stripe_purchases) = 3
    /\ \A s \in SessionIds : overlapped[s] = FALSE /\ RowsOf(s) # {}
    /\ \E p \in Procs : pc[p] = "ret" /\ \A q \in Procs : Active(q)
    /\ Balance(1001) = 11

\* C4: the purchase row and the balance increment are committed in one
\* step or not at all.  Every step that changes a table is the commit of
\* one handler, which appends its row and adds its songs to its user's
\* balance and changes nothing else; and whenever a transaction that has
\* inserted its purchase row ends otherwise (crash, or an exception of the
\* UPDATE), the step leaves both tables as they were, with no row for its
\* session.
C4_InsertAndIncrementAtomic ==
    [][ /\ (users' # users \/ stripe_purchases' # stripe_purchases) =>
            \E p \in Procs :
                /\ pc[p] = "commit" /\ pc'[p] = "ret"
                /\ stripe_purchases' = Append(stripe_purchases, RowOf(p))
                /\ Balance(UserOf(p))' = Balance(UserOf(p)) + SongsOf(p)
                /\ \A u \in UserIds \ {UserOf(p)} : Balance(u)' = Balance(u)
        /\ \A p \in Procs :
                (tx[p].purchase /\ ~tx'[p].purchase /\ pc'[p] # "ret") =>
                    /\ UNCHANGED <<users, stripe_purchases>>
                    /\ RowsOf(req[p].id) = {}
      ]_vars

\* C4 witness: a transaction was aborted after its purchase INSERT; its
\* session has no row and its user no balance.
C4_Witness ==
    \E s \in aborts : RowsOf(s) = {} /\ users = {} /\ stripe_purchases = <<>>

\* C5: with the webhook secret configured, a request whose
\* Stripe-Signature header is absent or does not verify is answered 400,
\* the step changes neither table, and no handler is ever inside
\* add_balance_once for such a request.
C5_BadSignatureRejected ==
    [][ /\ (out' # NoResponse /\ STRIPE_WEBHOOK_SECRET # ""
                /\ out'.req.sig # STRIPE_WEBHOOK_SECRET) =>
            (out'.status = 400 /\ UNCHANGED <<users, stripe_purchases, pc, tx>>)
        /\ \A p \in Procs :
                pc'[p] # "idle" => req'[p].sig = STRIPE_WEBHOOK_SECRET
      ]_vars

\* C5 witness: a forged signature is answered 400 while the store holds a
\* purchase and another delivery is in flight.
C5_Witness ==
    /\ out.status = 400
    /\ out.req.sig = "whsec_forged"
    /\ stripe_purchases # <<>>
    /\ \E p \in Procs : Active(p)

\* C6: a validly signed checkout.session.completed event whose
\* payment_status is not "paid" is answered 200 with the body
\* {ok: true, ignored: "not_paid"}, the step changes neither table and starts
\* no transaction, and no handler is ever inside add_balance_once for such
\* an event, however often it is delivered.
C6_NotPaidIgnored ==
    [][ /\ (out' # NoResponse /\ out'.req.type = "checkout.session.completed"
                /\ out'.req.payment_status \notin {"paid", None}) =>
            /\ out'.status = 200
            /\ out'.body = [ok |-> TRUE, ignored |-> "not_paid"]
            /\ UNCHANGED <<users, stripe_purchases, pc, tx>>
        /\ \A p \in Procs : pc'[p] # "idle" => req'[p].payment_status = "paid"
      ]_vars

\* C6 witness: the second of two deliveries is an unpaid event, answered
\* ignored-not-paid, with the tables still empty.
C6_Witness ==
    /\ out.req.payment_status = "unpaid"
    /\ out.body = [ok |-> TRUE, ignored |-> "not_paid"]
    /\ deliveries = 2
    /\ users = {} /\ stripe_purchases = <<>>

\* C7 (as claimed): a delivery is answered credited=false only when a
\* stripe_purchases row of its session id is committed.
C7_FalseOnlyOnDuplicate ==
    (Credited(out) /\ out.body.credited = FALSE) => RowsOf(out.req.id) # {}

\* C8 (as claimed): every response is 200, except 400 for an absent or
\* invalid signature and 500 for an unconfigured webhook secret.
C8_OnlySignatureAndConfigErrors ==
    out # NoResponse =>
        \/ out.status = 200
        \/ out.status = 400 /\ out.req.sig # STRIPE_WEBHOOK_SECRET
        \/ out.status = 500 /\ STRIPE_WEBHOOK_SECRET = ""

\* the outcome of a validly signed request, as the claim C9 names them
Outcome(r) ==
    IF r.type # "checkout.session.completed" THEN "wrong_event"
    ELSE IF r.payment_status # "paid" THEN "not_paid"
    ELSE IF r.id = None \/ r.user_id = None \/ r.pack \notin DOMAIN PACK_TO_SONGS
        THEN "missing_fields"
    ELSE "credited"

\* the outcomes the body tells apart
Outcome3(r) ==
    IF Outcome(r) \in {"wrong_event", "missing_fields"} THEN "ignored" ELSE Outcome(r)

\* the 200 answers the handler gives without calling add_balance_once
Acknowledged == {r \in Requests : Prelude(r, STRIPE_WEBHOOK_SECRET).status = 200}

\* C9 (as claimed): the body of a 200 answer differs from the body the
\* handler gives to any request with another of the four outcomes
\* wrong-event, not-paid, missing-fields, credited.
C9_FourOutcomesDistinct ==
    out.status = 200 =>
        \A r \in Acknowledged :
            Outcome(r) # Outcome(out.req) =>
                Prelude(r, STRIPE_WEBHOOK_SECRET).body # out.body

\* C9 (amended): the body of a 200 answer tells three outcomes apart:
\* not-paid ({ok, ignored: "not_paid"}), credited true/false ({ok, credited})
\* and ignored without a reason ({ok: true}); the last is the body both of a
\* wrong event type and of missing fields or an unknown pack.
C9_ThreeOutcomesDistinct ==
    out.status = 200 =>
        /\ \A r \in Acknowledged :
                Outcome3(r) # Outcome3(out.req) =>
                    Prelude(r, STRIPE_WEBHOOK_SECRET).body # out.body
        /\ Outcome3(out.req) = "ignored" => out.body = [ok |-> TRUE]
        /\ Outcome3(out.req) = "not_paid" => out.body = [ok |-> TRUE, ignored |-> "not_paid"]
        /\ Outcome3(out.req) = "credited" =>
                out.body \in {[ok |-> TRUE, credited |-> c] : c \in BOOLEAN}

\* C9 witness: a paid checkout-completed event with an unknown pack is
\* answered {ok: true}, the body of a wrong event type.
C9_Witness ==
    /\ out.status = 200
    /\ Outcome(out.req) = "missing_fields"
    /\ out.req.pack = "pack_x"
    /\ out.body = [ok |-> TRUE]
    /\ \E r \in Acknowledged : Outcome(r) = "wrong_event" /\
            Prelude(r, STRIPE_WEBHOOK_SECRET).body = out.body

\* C10: when the deliveries of a new session never overlapped, the first
\* one answered is answered credited=true and every later one
\* credited=false, and every credited answer has status 200 (while the store
\* answers every statement).
C10_FirstTrueThenFalse ==
    /\ \A s \in SessionIds :
            ~overlapped[s] => \A i \in DOMAIN answers[s] : answers[s][i] = (i = 1)
    /\ "credited" \in DOMAIN out.body => out.status = 200

\* C10 witness: two deliveries one after the other, answered true and
\* then false with status 200.
C10_Witness ==
    \E s \in SessionIds :
        /\ ~overlapped[s]
        /\ answers[s] = <<TRUE, FALSE>>
        /\ out = Response(out.req, 200, [ok |-> TRUE, credited |-> FALSE])
        /\ out.req.id = s

\* C11: while STRIPE_WEBHOOK_SECRET is empty, every webhook request is
\* answered 500 "STRIPE_WEBHOOK_SECRET not set" with nothing of the request
\* examined (neither the signature header nor the payload), whatever the
\* request is; no step changes a table, and no handler enters
\* add_balance_once or opens a transaction.
C11_UnconfiguredFailsClosed ==
    [][ STRIPE_WEBHOOK_SECRET = "" =>
            /\ UNCHANGED <<users, stripe_purchases, pc, req, tx>>
            /\ (deliveries' # deliveries /\ page' = NoPage) =>
                    out' = Response(NoRequest, 500, Detail("STRIPE_WEBHOOK_SECRET not set"))
      ]_vars

\* C11 witness: with the secret unconfigured and a purchase in the store,
\* the second of two requests is answered 500 and the store is as it was.
C11_Witness ==
    /\ STRIPE_WEBHOOK_SECRET = ""
    /\ out.status = 500
    /\ deliveries = 2
    /\ users = EarlierStore.users /\ stripe_purchases = EarlierStore.stripe_purchases

\* C12: a validly signed event of a type other than
\* checkout.session.completed is answered 200; the step changes neither
\* table and starts no transaction, and no handler is ever inside
\* add_balance_once for such an event.
C12_OtherEventsAcknowledged ==
    [][ /\ (out' # NoResponse /\ STRIPE_WEBHOOK_SECRET # ""
                /\ out'.req.sig = STRIPE_WEBHOOK_SECRET
                /\ out'.req.type # "checkout.session.completed") =>
            /\ out'.status = 200
            /\ UNCHANGED <<users, stripe_purchases, pc, tx>>
        /\ \A p \in Procs :
                pc'[p] # "idle" => req'[p].type = "checkout.session.completed"
      ]_vars

\* C12 witness: a payment_intent.succeeded event is answered 200 while the
\* store holds a purchase and another delivery has its transaction open.
C12_Witness ==
    /\ out.status = 200
    /\ out.req.type = "payment_intent.succeeded"
    /\ stripe_purchases # <<>>
    /\ \E p \in Procs : tx[p].purchase

\* the metadata the claim C13 is about: id, user_id or pack absent, or the
\* pack no key of PACK_TO_SONGS
Incomplete(r) ==
    r.id = None \/ r.user_id = None \/ r.pack \notin DOMAIN PACK_TO_SONGS

\* C13: a validly signed, paid checkout.session.completed event whose id,
\* metadata user_id or metadata pack is absent, or whose pack is no key of
\* PACK_TO_SONGS, is answered 200; the step changes neither table (no users
\* row, no purchase row, no balance) and starts no transaction, and no
\* handler is ever inside add_balance_once for such an event.
C13_IncompleteAcknowledged ==
    [][ /\ (out' # NoResponse /\ STRIPE_WEBHOOK_SECRET # ""
                /\ out'.req.sig = STRIPE_WEBHOOK_SECRET
                /\ out'.req.type = "checkout.session.completed"
                /\ out'.req.payment_status = "paid"
                /\ Incomplete(out'.req)) =>
            /\ out'.status = 200
            /\ UNCHANGED <<users, stripe_purchases, pc, tx>>
        /\ \A p \in Procs : pc'[p] # "idle" => ~Incomplete(req'[p])
      ]_vars

\* C13 witness: a paid event with an unknown pack for a user without an
\* account is answered 200 and there is still no users row.
C13_Witness ==
    /\ out.status = 200
    /\ out.req.payment_status = "paid"
    /\ out.req.user_id = "1002"
    /\ out.req.pack = "pack_x"
    /\ deliveries = 2
    /\ users = {} /\ stripe_purchases = <<>>

\* C14: a step that serves create-checkout, the success page or the cancel
\* page changes neither table and no handler's transaction, whatever its
\* input (a stale or arbitrary session_id of the success page included); a
\* step that changes a table is the commit of a webhook handler.
C14_OnlyWebhookMutates ==
    [][ /\ page' # NoPage => UNCHANGED <<users, stripe_purchases, pc, req, tx>>
        /\ (users' # users \/ stripe_purchases' # stripe_purchases) =>
                /\ page' = NoPage
                /\ \E p \in Procs : pc[p] = "commit" /\ pc'[p] = "ret"
      ]_vars

\* C14 witness: the success page is served for a session id the store has
\* never seen, while the store holds a purchase and a webhook delivery has
\* its transaction open.
C14_Witness ==
    /\ page.route = "success"
    /\ page.req.session_id = "cs_stale"
    /\ page.status = 200
    /\ users = EarlierStore.users /\ stripe_purchases = EarlierStore.stripe_purchases
    /\ \E p \in Procs : tx[p].purchase

\* C15: no step modifies or deletes a committed stripe_purchases row (the
\* rows of the step before are the first rows of the step after, with the
\* user_id, pack and songs they were committed with, also when the session id
\* is delivered again with other metadata); no users row is deleted, no
\* balance decreases, and no balance is ever negative.
C15_RowsImmutableBalanceMonotone ==
    /\ [](\A r \in users : r.balance >= 0)
    /\ [][ /\ Len(stripe_purchases') >= Len(stripe_purchases)
            /\ \A i \in DOMAIN stripe_purchases : stripe_purchases'[i] = stripe_purchases[i]
            /\ \A r \in users : \E r2 \in users' :
                    r2.user_id = r.user_id /\ r2.balance >= r.balance
          ]_vars

\* C15 witness: session cs_1 was credited to user 1001 and then delivered
\* again with user_id 1002; both deliveries were answered, and the row is
\* still the one of user 1001.
C15_Witness ==
    /\ answers["cs_1"] = <<TRUE, FALSE>>
    /\ meta["cs_1"] = {<<"1001", "pack_5">>, <<"1002", "pack_5">>}
    /\ Cardinality(RowsOf("cs_1")) = 1
    /\ TheRow("cs_1").user_id = 1001
    /\ Balance(1001) = 5

\* C16: a create-checkout request whose pack is no key of PACK_TO_SONGS
\* makes no call of stripe.checkout.Session.create, and every call that is
\* made carries a pack that is a key of PACK_TO_SONGS.
C16_UnknownPackNeverReachesProvider ==
    /\ (page.route = "create-checkout" /\ page.req.pack \notin DOMAIN PACK_TO_SONGS)
            => (provider = NoCall /\ page.status # 200)
    /\ provider # NoCall => provider.metadata.pack \in DOMAIN PACK_TO_SONGS

\* C16 witness: in a fully configured deployment a request for pack_x with a
\* price the provider has is answered 400 "Unknown pack" with no call made.
C16_Witness ==
    /\ STRIPE_SECRET_KEY # "" /\ PUBLIC_BASE_URL # ""
    /\ page.route = "create-checkout"
    /\ page.req.pack = "pack_x" /\ page.req.price_id = "price_5"
    /\ page.status = 400 /\ page.body = Detail("Unknown pack")
    /\ provider = NoCall

\* the provider raises on the call this step made
ProviderRejected == provider # NoCall /\ \A o \in ProviderOutcomes(provider) : o.raised

\* the answer with the checkout URL and the session id
CheckoutCreated ==
    /\ page.status = 200
    /\ provider # NoCall
    /\ \E o \in ProviderOutcomes(provider) :
            ~o.raised /\ page.body = [checkout_url |-> o.url, session_id |-> o.id]

\* C17 (as claimed): create-checkout answers 500 when STRIPE_SECRET_KEY is
\* missing, else 400 for an unknown pack, else 400 with the provider's
\* message when the provider rejects the call, and otherwise the checkout
\* URL and the session id.
C17_ThreeErrorClasses ==
    page.route = "create-checkout" =>
        IF STRIPE_SECRET_KEY = "" THEN page.status = 500
        ELSE IF page.req.pack \notin DOMAIN PACK_TO_SONGS THEN page.status = 400
        ELSE IF ProviderRejected
            THEN page.status = 400 /\ page.body = Detail(<<"Stripe error: ", "No such price">>)
        ELSE CheckoutCreated

\* C17 (amended): create-checkout answers 500 when STRIPE_SECRET_KEY is
\* missing, else 400 for an unknown pack, else 500 when PUBLIC_BASE_URL is
\* empty (no provider call is made), else 400 with the provider's message
\* when the provider rejects the call, and otherwise the checkout URL and the
\* session id.
C17_FourErrorClasses ==
    page.route = "create-checkout" =>
        IF STRIPE_SECRET_KEY = ""
            THEN page.status = 500 /\ page.body = Detail("STRIPE_SECRET_KEY not set")
        ELSE IF page.req.pack \notin DOMAIN PACK_TO_SONGS
            THEN page.status = 400 /\ page.body = Detail("Unknown pack")
        ELSE IF PUBLIC_BASE_URL = ""
            THEN /\ page.status = 500 /\ page.body = Detail("PUBLIC_BASE_URL not set")
                 /\ provider = NoCall
        ELSE IF ProviderRejected
            THEN page.status = 400 /\ page.body = Detail(<<"Stripe error: ", "No such price">>)
        ELSE CheckoutCreated

\* C17 witness: with the key set and PUBLIC_BASE_URL empty, a request for a
\* known pack and a price the provider has is answered 500, not the URL.
C17_Witness ==
    /\ STRIPE_SECRET_KEY # "" /\ PUBLIC_BASE_URL = ""
    /\ page.route = "create-checkout"
    /\ page.req.pack = "pack_5" /\ page.req.price_id = "price_5"
    /\ page.status = 500
    /\ provider = NoCall

\* C18 (as claimed): a delivery of a validly signed, paid
\* checkout.session.completed event with complete metadata and a known pack
\* is answered 2xx only when a stripe_purchases row of its session is
\* committed, so that the provider stops redelivering only events that are
\* recorded.
C18_AcknowledgedOnlyWhenRecorded ==
    \A s \in SessionIds : answers[s] # <<>> => RowsOf(s) # {}

\* C19: every committed stripe_purchases row has a users row of its
\* user_id; and a handler that leaves the rollback of lines 69-71 keeps
\* nothing of its transaction, its INSERT INTO users included: the step
\* changes no table.
C19_PurchaseHasUser ==
    /\ [](\A i \in DOMAIN stripe_purchases : HasUser(stripe_purchases[i].user_id))
    /\ [][ \A p \in Procs :
                (pc[p] = "rollback" /\ pc'[p] # "rollback") =>
                    /\ UNCHANGED <<users, stripe_purchases>>
                    /\ tx'[p] = NoTx
          ]_vars

\* C19 witness: session cs_1, credited to user 1001, was delivered again
\* with user_id 1002 and answered credited=false; user 1002, whose row the
\* second transaction had inserted, has no users row.
C19_Witness ==
    /\ answers["cs_1"] = <<TRUE, FALSE>>
    /\ meta["cs_1"] = {<<"1001", "pack_5">>, <<"1002", "pack_5">>}
    /\ users = {[user_id |-> 1001, balance |-> 5]}
    /\ ~HasUser(1002)
    /\ \A i \in DOMAIN stripe_purchases : HasUser(stripe_purchases[i].user_id)
====
